---- MODULE Spec2Model ----
(***************************************************************************)
(* Vesture backend: the user collection with follow/unfollow, and the OOTD *)
(* post collection with like/save/comment and their notifications.         *)
(* Documents live in a MongoDB store reached through Mongoose; a request   *)
(* handler is an async function whose awaits are its scheduling points.    *)
(***************************************************************************)
EXTENDS Integers, Sequences, FiniteSets, TLC

\* ---------------------------------------------------------------- bounds
MaxUsers == 2          \* user documents ever inserted (ObjectIds are never reused)
MaxHandlers == 2       \* follow/unfollow handlers in flight at once
MaxVersion == 3        \* array writes to one user document (its __v) in a run

MaxPosts == 1          \* post documents ever inserted
MaxNotifications == 1  \* notification documents stored
MaxComments == 1       \* comments on one post
MaxTime == 2           \* distinct clock readings stamped on comments

MaxProducts == 2       \* product documents ever inserted
MaxCloset == 1         \* closet items stored

MaxLate == 3           \* clock ticks the model runs on after a token's hour

UserOids == 1..MaxUsers
PostOids == 1..MaxPosts
ProductOids == 1..MaxProducts
Handlers == 1..MaxHandlers
Emails == {"e1", "e2"}
Bios == {"", "hi"}

\* ---------------------------------------------------------------- values
\* null, as returned by findById / findByIdAndUpdate for a missing document
Null == [kind |-> "null"]
\* a body field the client did not send
Undefined == [kind |-> "undef"]
\* a string-valued body field the client did not send
Missing == "undefined"
\* a string that is not 24 hex digits
Garbage == [kind |-> "garbage"]
\* an ObjectId generated by the driver: equal to no stored document's id
FreshOid == 0

\* A 24-digit hex string naming ObjectId oid; hex digits a-f may be sent in
\* either case, and both spellings name the same ObjectId.
HexStr(oid, upper) == [kind |-> "hex", oid |-> oid, upper |-> upper]
HexStrings(S) == {HexStr(o, u) : o \in S, u \in BOOLEAN}

\* new mongoose.Types.ObjectId(x): parses a hex string whatever its case,
\* generates a fresh id for undefined, throws on anything else.
ObjectIdThrows(x) == x.kind = "garbage"
NewObjectId(x) == IF x.kind = "hex" THEN x.oid ELSE FreshOid

\* ObjectId.prototype.toString(): lower-case hex
OidToString(oid) == HexStr(oid, FALSE)

\* ---------------------------------------------------------------- sequences
Includes(s, x) == \E i \in 1..Len(s) : s[i] = x
RECURSIVE Without(_, _)
Without(s, x) ==
  IF s = <<>> THEN <<>>
  ELSE IF Head(s) = x THEN Without(Tail(s), x)
       ELSE <<Head(s)>> \o Without(Tail(s), x)
Max0(n) == IF n < 0 THEN 0 ELSE n
Occurrences(s, x) == Cardinality({i \in 1..Len(s) : s[i] = x})

VARIABLES
  users,      \* the User collection: ObjectId -> document or Null
  nextUser,   \* the next ObjectId the driver hands to an inserted user
  hs,         \* follow/unfollow handlers in flight (their locals and position)
  last,       \* the request answered last: operation, ids, HTTP status
  snap,       \* the collection as it was before the last successful follow,
              \* kept while that follow, or that follow and its unfollow, are
              \* the latest requests; Null otherwise
  posts,          \* the OOTDPost collection: ObjectId -> document or Null
  nextPost,       \* the next ObjectId the driver hands to an inserted post
  notifications,  \* the Notification collection, in insertion order
  lastP,          \* the post request answered last
  products,       \* the Product collection: ObjectId -> document or Null
  nextProduct,    \* the next ObjectId the driver hands to an inserted product
  closet,         \* the ClosetItem collection, in insertion order
  lastC,          \* the product or closet request answered last
  now,            \* Date.now(), in clock ticks
  held,           \* the token a client keeps from a register or login
                  \* response, with the clock tick it was issued at and the
                  \* user it was issued for, or Null
  localStorage    \* the browser's localStorage: the items 'token' and
                  \* 'userId', each a string or Null

userVars == <<users, nextUser, hs, last, snap>>
postVars == <<posts, nextPost, notifications, lastP>>
catVars == <<products, nextProduct, closet, lastC>>
authVars == <<now, held, localStorage>>
vars == <<userVars, postVars, catVars, authVars>>
\* what the handlers of one collection leave alone
nonUserVars == <<postVars, catVars, authVars>>
nonPostVars == <<userVars, catVars, authVars>>
nonCatVars == <<userVars, postVars, authVars>>

\* ---------------------------------------------------------------- tokens
\* clock readings told apart within one second
TicksPerSecond == 2
\* expiresIn: '1h', in seconds
ExpiresIn == 3600
Hour == ExpiresIn * TicksPerSecond
Horizon == Hour + MaxLate
\* Math.floor(Date.now() / 1000): the clock as jsonwebtoken reads it
Seconds(ticks) == ticks \div TicksPerSecond

\* the signing key of this server, and any other key
JWT_SECRET == "JWT_SECRET"
OtherSecret == "other"

\* jwt.sign({ userId }, secret, { expiresIn: '1h' }): iat is the clock in
\* whole seconds, exp is iat + 3600
JwtSign(userId, secret, ticks) ==
  [kind |-> "jwt", userId |-> userId, iat |-> Seconds(ticks),
   exp |-> Seconds(ticks) + ExpiresIn, sig |-> secret]

\* a signature made with the secret but a lifetime of two hours
GenerateToken_twoHours(userId, ticks) ==
  [JwtSign(userId, JWT_SECRET, ticks) EXCEPT !.exp = Seconds(ticks) + 2 * ExpiresIn]
GenerateToken(userId, ticks) == JwtSign(userId, JWT_SECRET, ticks)

\* jwt.verify(token, secret) calls back with an error for a missing or
\* malformed token, a signature made with another key, and a token whose
\* exp the clock (in whole seconds) has reached
JwtVerifyFails(token, secret, ticks) ==
  \/ token.kind # "jwt"
  \/ token.sig # secret
  \/ Seconds(ticks) >= token.exp

\* the Authorization header: absent, or a string of words separated by
\* single spaces (words = <<>> is the empty string)
Word(text) == [kind |-> "word", text |-> text]
Header(words) == [kind |-> "header", words |-> words]
NoHeader == Undefined
Bearer(token) == Header(<<Word("Bearer"), token>>)

\* !authHeader
HeaderFalsy(authHeader) == authHeader = NoHeader \/ authHeader.words = <<>>
\* authHeader.split(' ')[1]
TokenPart(authHeader) ==
  IF Len(authHeader.words) >= 2 THEN authHeader.words[2] ELSE Undefined

\* what verifyToken did: the status of the response it sent (0 for none),
\* how many times it called next(), and the req.body.userId it set
Outcome(status, next, userId) == [status |-> status, next |-> next, userId |-> userId]

\* verifyToken answering 401 whenever it does not call next()
VerifyToken_always401(authHeader, ticks) ==
  IF HeaderFalsy(authHeader) \/ JwtVerifyFails(TokenPart(authHeader), JWT_SECRET, ticks)
  THEN Outcome(401, 0, Undefined)
  ELSE Outcome(0, 1, TokenPart(authHeader).userId)
VerifyToken(authHeader, ticks) ==
  IF HeaderFalsy(authHeader) THEN Outcome(401, 0, Undefined)
  ELSE IF JwtVerifyFails(TokenPart(authHeader), JWT_SECRET, ticks)
  THEN Outcome(403, 0, Undefined)
  ELSE Outcome(0, 1, TokenPart(authHeader).userId)

\* ---------------------------------------------------------------- passwords
\* a password: its first 72 bytes and whatever follows them
Password(first72, rest) == [first72 |-> first72, rest |-> rest]
Passwords ==
  {Password("secret1", ""), Password("seventy-two bytes", "x"),
   Password("seventy-two bytes", "y")}
\* the password of the runs that do not log in
OnePassword == {Password("secret1", "")}

\* bcrypt.hash(password, 10): bcrypt uses the first 72 bytes of the
\* password and ignores the rest
BcryptHash(password) == [bcrypt |-> password.first72]
\* bcrypt.compare(password, hash)
BcryptCompare(password, hash) == hash = BcryptHash(password)

\* ---------------------------------------------------------------- User model
\* UserSchema defaults: counters 0, lists empty, bio ''
\* (password is not a stored field: it records the password passwordHash
\* was made from)
NewUserDoc(email, password) ==
  [email |-> email, passwordHash |-> BcryptHash(password), password |-> password,
   bio |-> "", followerCount |-> 0, followingCount |-> 0,
   followers |-> <<>>, following |-> <<>>, v |-> 0]

Exists(store, oid) == oid \in DOMAIN store /\ store[oid] # Null
FindById(store, oid) == IF Exists(store, oid) THEN store[oid] ELSE Null
\* User.findOne({ email })
GetUserByEmail(store, email) ==
  IF \E o \in DOMAIN store : store[o] # Null /\ store[o].email = email
  THEN CHOOSE o \in DOMAIN store : store[o] # Null /\ store[o].email = email
  ELSE FreshOid

Idle == [pc |-> "idle"]
NoRequest == [op |-> "none", actor |-> FreshOid, target |-> FreshOid, status |-> 0]
Response(op, actor, target, status) ==
  [op |-> op, actor |-> actor, target |-> target, status |-> status]
\* a register or login response that carries a token (issuedAt is not in
\* the response: it records the clock tick the token was signed at)
TokenResponse(op, id, status, token, ticks) ==
  [op |-> op, actor |-> id, target |-> id, status |-> status,
   token |-> token, issuedAt |-> ticks]

NoPostRequest ==
  [op |-> "none", post |-> FreshOid, actor |-> Undefined, member |-> FALSE, status |-> 0]

NoCatalogRequest == [op |-> "none", product |-> FreshOid, status |-> 0]

Init ==
  /\ users = [o \in UserOids |-> Null]
  /\ nextUser = 1
  /\ hs = [h \in Handlers |-> Idle]
  /\ last = NoRequest
  /\ snap = Null
  /\ posts = [o \in PostOids |-> Null]
  /\ nextPost = 1
  /\ notifications = <<>>
  /\ lastP = NoPostRequest
  /\ products = [o \in ProductOids |-> Null]
  /\ nextProduct = 1
  /\ closet = <<>>
  /\ lastC = NoCatalogRequest
  /\ now = 0
  /\ held = Null
  /\ localStorage = [token |-> Null, userId |-> Null]

\* ---------------------------------------------------------------- document.save()
\* What a controller did to a loaded document, as Mongoose tracks it: the
\* array path was pushed to ($push), replaced ($set of the whole array, which
\* is sent with a __v check) or left alone, and the counter path is $set when
\* its value differs from the loaded one.
PushDelta(doc, arr, item, cnt, n) ==
  [arr |-> arr, op |-> "push", items |-> <<item>>,
   cnt |-> cnt, cntSet |-> n # doc[cnt], cntVal |-> n, baseV |-> doc.v]
SetDelta(doc, arr, items, cnt, n) ==
  [arr |-> arr, op |-> IF items = doc[arr] THEN "none" ELSE "set", items |-> items,
   cnt |-> cnt, cntSet |-> n # doc[cnt], cntVal |-> n, baseV |-> doc.v]

\* save() throws when the document is gone (DocumentNotFoundError) or when
\* a versioned array write finds another __v (VersionError)
SaveThrows(store, oid, d) ==
  \/ ~Exists(store, oid)
  \/ d.op = "set" /\ store[oid].v # d.baseV

SavedDoc(doc, d) ==
  LET a == IF d.op = "push" THEN [doc EXCEPT ![d.arr] = doc[d.arr] \o d.items]
           ELSE IF d.op = "set" THEN [doc EXCEPT ![d.arr] = d.items]
           ELSE doc
      c == IF d.cntSet THEN [a EXCEPT ![d.cnt] = d.cntVal] ELSE a
  IN IF d.op = "none" THEN c ELSE [c EXCEPT !.v = doc.v + 1]

Save(store, oid, d) == [store EXCEPT ![oid] = SavedDoc(store[oid], d)]

\* ---------------------------------------------------------------- follow / unfollow
\* the push without the counter increment
FollowUserDelta_noCount(user, followUserId) ==
  PushDelta(user, "following", followUserId, "followingCount", user.followingCount)
\* followUserController: user.following.push; followingCount + 1
FollowUserDelta(user, followUserId) ==
  PushDelta(user, "following", followUserId, "followingCount", user.followingCount + 1)
\* followUserController: followUser.followers.push; followerCount + 1
FollowTargetDelta(followUser, userId) ==
  PushDelta(followUser, "followers", userId, "followerCount", followUser.followerCount + 1)
\* unfollowUserController: filter + Math.max(0, count - 1)
UnfollowUserDelta(user, unfollowUserId) ==
  SetDelta(user, "following", Without(user.following, unfollowUserId),
           "followingCount", Max0(user.followingCount - 1))
\* the followers filter written against the wrong id, so nothing is removed
UnfollowTargetDelta_wrongId(unfollowUser, userId) ==
  SetDelta(unfollowUser, "followers", unfollowUser.followers,
           "followerCount", Max0(unfollowUser.followerCount - 1))
UnfollowTargetDelta(unfollowUser, userId) ==
  SetDelta(unfollowUser, "followers", Without(unfollowUser.followers, userId),
           "followerCount", Max0(unfollowUser.followerCount - 1))

UserDelta(op, user, targetId) ==
  IF op = "follow" THEN FollowUserDelta(user, targetId) ELSE UnfollowUserDelta(user, targetId)
TargetDelta(op, target, userId) ==
  IF op = "follow" THEN FollowTargetDelta(target, userId) ELSE UnfollowTargetDelta(target, userId)

\* the guard without its two Conflict branches
RelationStatus_noConflict(op, user, target, targetId) ==
  IF user = Null \/ target = Null THEN 404 ELSE 0
\* the guard after both documents are loaded: the HTTP status of the early
\* return, or 0 when the handler goes on to modify the documents
RelationStatus(op, user, target, targetId) ==
  IF user = Null \/ target = Null THEN 404
  ELSE IF op = "follow" /\ Includes(user.following, targetId) THEN 400
  ELSE IF op = "unfollow" /\ ~Includes(user.following, targetId) THEN 400
  ELSE 0

\* the comparison by object identity (===) instead of by value
SameUser_identity(userId, targetId) == FALSE
\* userId.equals(followUserId)
SameUser(userId, targetId) == userId = targetId

\* the whole handler, run without interruption
RelationRequest(op, bodyUserId, paramId) ==
  LET userId == NewObjectId(bodyUserId)
      targetId == NewObjectId(paramId)
      user == FindById(users, userId)
      target == FindById(users, targetId)
      st == RelationStatus(op, user, target, targetId)
      store1 == Save(users, userId, UserDelta(op, user, targetId))
      store2 == Save(store1, targetId, TargetDelta(op, target, userId))
  IN
  /\ UNCHANGED nonUserVars
  /\ IF ObjectIdThrows(bodyUserId) \/ ObjectIdThrows(paramId)
     THEN \* thrown before the try block: the request is never answered
          /\ last' = Response(op, FreshOid, FreshOid, 0)
          /\ snap' = Null
          /\ UNCHANGED <<users, nextUser, hs>>
     ELSE IF SameUser(userId, targetId)
     THEN /\ last' = Response(op, userId, targetId, 400)
          /\ snap' = Null
          /\ UNCHANGED <<users, nextUser, hs>>
     ELSE IF st # 0
     THEN /\ last' = Response(op, userId, targetId, st)
          /\ snap' = Null
          /\ UNCHANGED <<users, nextUser, hs>>
     ELSE /\ user.v < MaxVersion /\ target.v < MaxVersion
          /\ users' = store2
          /\ last' = Response(op, userId, targetId, 200)
          /\ snap' = IF op = "follow" THEN users
                     ELSE IF last = Response("follow", userId, targetId, 200) THEN snap
                     ELSE Null
          /\ UNCHANGED <<nextUser, hs>>

BodyIds == HexStrings(UserOids) \cup {Undefined, Garbage}
ParamIds == HexStrings(UserOids) \cup {Garbage}

FollowUserController ==
  \E b \in BodyIds, p \in ParamIds : RelationRequest("follow", b, p)
UnfollowUserController ==
  \E b \in BodyIds, p \in ParamIds : RelationRequest("unfollow", b, p)

\* ---------------------------------------------------------------- accounts
\* createUserController: 400 on a missing field or a taken email, else insert
CreateUserStatus(store, complete, email) ==
  IF ~complete \/ email = Missing THEN 400
  ELSE IF GetUserByEmail(store, email) # FreshOid THEN 400
  ELSE 201

\* createUserController on one request body (complete: username and
\* password are given)
CreateUserRequest(complete, email, password) ==
  LET st == CreateUserStatus(users, complete, email) IN
  /\ nextUser <= MaxUsers
  /\ IF st = 201
     THEN /\ users' = [users EXCEPT ![nextUser] = NewUserDoc(email, password)]
          /\ nextUser' = nextUser + 1
          /\ last' = TokenResponse("register", nextUser, 201,
                                    GenerateToken(OidToString(nextUser), now), now)
     ELSE /\ last' = Response("register", FreshOid, FreshOid, st)
          /\ UNCHANGED <<users, nextUser>>
  /\ snap' = Null
  /\ UNCHANGED <<hs, nonUserVars>>

\* createUserController, for the passwords the requests draw from
CreateUser(passwords) ==
  \E complete \in BOOLEAN, email \in Emails \cup {Missing}, password \in passwords :
    CreateUserRequest(complete, email, password)

CreateUserController == CreateUser(OnePassword)

\* a collection without the unique index
EmailTaken_noIndex(store, oid, email) == FALSE
\* the unique index on email rejects a write that would give two documents
\* the same email (E11000)
EmailTaken(store, oid, email) ==
  \E o \in DOMAIN store : o # oid /\ store[o] # Null /\ store[o].email = email

\* updateUser: findByIdAndUpdate(id, { username, email, passwordHash }),
\* the hash only if (password)
UpdatedUser(doc, email, password) ==
  LET e == IF email = Missing THEN doc ELSE [doc EXCEPT !.email = email]
  IN IF password = Undefined THEN e
     ELSE [e EXCEPT !.passwordHash = BcryptHash(password), !.password = password]

\* updateUserController, for the passwords the requests draw from
UpdateUser(passwords) ==
  \E p \in ParamIds, email \in Emails \cup {Missing},
     password \in passwords \cup {Undefined} :
    LET id == NewObjectId(p) IN
    /\ IF ObjectIdThrows(p)
       THEN last' = Response("update", FreshOid, FreshOid, 500) /\ UNCHANGED users
       ELSE IF ~Exists(users, id)
       THEN last' = Response("update", id, id, 404) /\ UNCHANGED users
       ELSE IF email # Missing /\ EmailTaken(users, id, email)
       THEN last' = Response("update", id, id, 500) /\ UNCHANGED users
       ELSE /\ users' = [users EXCEPT ![id] = UpdatedUser(users[id], email, password)]
            /\ last' = Response("update", id, id, 200)
    /\ snap' = Null
    /\ UNCHANGED <<nextUser, hs, nonUserVars>>

\* requests that leave the password alone
UpdateUserController == UpdateUser({})

\* updateProfileController / updateBioController:
\* findByIdAndUpdate(id, { bio, profilePhoto, website })
UpdatedProfile(doc, bio) ==
  IF bio = Missing THEN doc ELSE [doc EXCEPT !.bio = bio]

UpdateProfileController ==
  \E p \in ParamIds, bio \in Bios \cup {Missing} :
    LET id == NewObjectId(p) IN
    /\ IF ObjectIdThrows(p)
       THEN last' = Response("profile", FreshOid, FreshOid, 500) /\ UNCHANGED users
       ELSE IF ~Exists(users, id)
       THEN last' = Response("profile", id, id, 404) /\ UNCHANGED users
       ELSE /\ users' = [users EXCEPT ![id] = UpdatedProfile(users[id], bio)]
            /\ last' = Response("profile", id, id, 200)
    /\ snap' = Null
    /\ UNCHANGED <<nextUser, hs, nonUserVars>>

\* deleteUser throws for a missing user and rethrows 'Failed to delete user',
\* which the controller answers with 500
DeleteUserStatus(store, p) ==
  IF ObjectIdThrows(p) \/ ~Exists(store, NewObjectId(p)) THEN 500 ELSE 200

DeleteUserController ==
  \E p \in ParamIds :
    LET id == NewObjectId(p)
        st == DeleteUserStatus(users, p)
    IN
    /\ IF st = 200
       THEN users' = [users EXCEPT ![id] = Null]
       ELSE UNCHANGED users
    /\ last' = Response("delete", id, id, st)
    /\ snap' = Null
    /\ UNCHANGED <<nextUser, hs, nonUserVars>>

\* ---------------------------------------------------------------- one request at a time
NextSeq ==
  \/ CreateUserController
  \/ UpdateUserController
  \/ UpdateProfileController
  \/ DeleteUserController
  \/ FollowUserController
  \/ UnfollowUserController

SpecSeq == Init /\ [][NextSeq]_vars

\* ---------------------------------------------------------------- interleaved handlers
\* followUserController / unfollowUserController as the event loop runs
\* them: the code between two awaits is one step.
InFlight(h) == hs[h].pc # "idle"
Touching(oid) ==
  Cardinality({h \in Handlers : InFlight(h) /\ (hs[h].userId = oid \/ hs[h].targetId = oid)})
VersionOf(oid) == IF Exists(users, oid) THEN users[oid].v ELSE 0

\* up to the first await: the ids are parsed and compared
Begin(h) ==
  \E op \in {"follow", "unfollow"}, b \in BodyIds, p \in ParamIds :
    LET userId == NewObjectId(b)
        targetId == NewObjectId(p)
    IN
    /\ ~InFlight(h)
    /\ ~ObjectIdThrows(b) /\ ~ObjectIdThrows(p)
    /\ ~SameUser(userId, targetId)
    /\ VersionOf(userId) + Touching(userId) < MaxVersion
    /\ VersionOf(targetId) + Touching(targetId) < MaxVersion
    /\ hs' = [hs EXCEPT ![h] = [pc |-> "findUser", op |-> op, userId |-> userId,
                                targetId |-> targetId, user |-> Null, target |-> Null]]
    /\ UNCHANGED <<users, nextUser, last, snap, nonUserVars>>

\* const user = await User.findById(userId)
FindUser(h) ==
  /\ hs[h].pc = "findUser"
  /\ hs' = [hs EXCEPT ![h].user = FindById(users, hs[h].userId), ![h].pc = "findTarget"]
  /\ UNCHANGED <<users, nextUser, last, snap, nonUserVars>>

\* const followUser = await User.findById(followUserId), then the guards
\* and the changes to the two loaded documents, up to await user.save()
FindTarget(h) ==
  LET target == FindById(users, hs[h].targetId)
      st == RelationStatus(hs[h].op, hs[h].user, target, hs[h].targetId)
  IN
  /\ hs[h].pc = "findTarget"
  /\ IF st # 0
     THEN /\ hs' = [hs EXCEPT ![h] = Idle]
          /\ last' = Response(hs[h].op, hs[h].userId, hs[h].targetId, st)
     ELSE /\ hs' = [hs EXCEPT ![h].target = target, ![h].pc = "saveUser"]
          /\ UNCHANGED last
  /\ UNCHANGED <<users, nextUser, snap, nonUserVars>>

\* await user.save()
SaveUser(h) ==
  LET d == UserDelta(hs[h].op, hs[h].user, hs[h].targetId) IN
  /\ hs[h].pc = "saveUser"
  /\ IF SaveThrows(users, hs[h].userId, d)
     THEN /\ hs' = [hs EXCEPT ![h] = Idle]
          /\ last' = Response(hs[h].op, hs[h].userId, hs[h].targetId, 500)
          /\ UNCHANGED users
     ELSE /\ users' = Save(users, hs[h].userId, d)
          /\ hs' = [hs EXCEPT ![h].pc = "saveTarget"]
          /\ UNCHANGED last
  /\ UNCHANGED <<nextUser, snap, nonUserVars>>

\* await followUser.save(), then the 200 response
SaveTarget(h) ==
  LET d == TargetDelta(hs[h].op, hs[h].target, hs[h].userId) IN
  /\ hs[h].pc = "saveTarget"
  /\ IF SaveThrows(users, hs[h].targetId, d)
     THEN /\ last' = Response(hs[h].op, hs[h].userId, hs[h].targetId, 500)
          /\ UNCHANGED users
     ELSE /\ users' = Save(users, hs[h].targetId, d)
          /\ last' = Response(hs[h].op, hs[h].userId, hs[h].targetId, 200)
  /\ hs' = [hs EXCEPT ![h] = Idle]
  /\ UNCHANGED <<nextUser, snap, nonUserVars>>

NextConc ==
  \/ CreateUserController
  \/ DeleteUserController
  \/ \E h \in Handlers : Begin(h)
  \/ \E h \in Handlers : FindUser(h)
  \/ \E h \in Handlers : FindTarget(h)
  \/ \E h \in Handlers : SaveUser(h)
  \/ \E h \in Handlers : SaveTarget(h)

SpecConc == Init /\ [][NextConc]_vars

\* ---------------------------------------------------------------- interleaved registrations
\* createUserController runs up to each await and then yields: the lookup
\* by email, then (after bcrypt.hash) the insert
Registering == Cardinality({h \in Handlers : InFlight(h)})

\* up to the first await: the body is read and checked for its fields
RegisterBegin(h) ==
  \E complete \in BOOLEAN, email \in Emails :
    /\ ~InFlight(h)
    /\ nextUser + Registering <= MaxUsers
    /\ IF complete
       THEN /\ hs' = [hs EXCEPT ![h] = [pc |-> "lookup", email |-> email]]
            /\ UNCHANGED last
       ELSE /\ last' = Response("register", FreshOid, FreshOid, 400)
            /\ UNCHANGED hs
    /\ snap' = Null
    /\ UNCHANGED <<users, nextUser, nonUserVars>>

\* await getUserByEmail(email)
RegisterLookup(h) ==
  /\ hs[h].pc = "lookup"
  /\ IF GetUserByEmail(users, hs[h].email) # FreshOid
     THEN /\ last' = Response("register", FreshOid, FreshOid, 400)
          /\ hs' = [hs EXCEPT ![h] = Idle]
     ELSE /\ hs' = [hs EXCEPT ![h].pc = "insert"]
          /\ UNCHANGED last
  /\ UNCHANGED <<users, nextUser, snap, nonUserVars>>

\* await createUser(...): newUser.save() inserts, or throws when the
\* unique index holds the email already; then the response
RegisterInsert(h) ==
  /\ hs[h].pc = "insert"
  /\ IF EmailTaken(users, nextUser, hs[h].email)
     THEN /\ last' = Response("register", FreshOid, FreshOid, 500)
          /\ UNCHANGED <<users, nextUser>>
     ELSE /\ users' = [users EXCEPT ![nextUser] = NewUserDoc(hs[h].email, CHOOSE p \in OnePassword : TRUE)]
          /\ nextUser' = nextUser + 1
          /\ last' = TokenResponse("register", nextUser, 201,
                                    GenerateToken(OidToString(nextUser), now), now)
  /\ hs' = [hs EXCEPT ![h] = Idle]
  /\ UNCHANGED <<snap, nonUserVars>>

NextReg ==
  \/ \E h \in Handlers : RegisterBegin(h)
  \/ \E h \in Handlers : RegisterLookup(h)
  \/ \E h \in Handlers : RegisterInsert(h)
  \/ UpdateUserController
  \/ DeleteUserController

SpecReg == Init /\ [][NextReg]_vars

\* ---------------------------------------------------------------- login and guarded routes
\* loginController, for one request body
LoginResponse(email, password) ==
  LET id == GetUserByEmail(users, email) IN
  IF id = FreshOid
  THEN Response("login", FreshOid, FreshOid, 401)
  ELSE IF ~BcryptCompare(password, users[id].passwordHash)
  THEN Response("login", id, id, 401)
  ELSE TokenResponse("login", id, 200, GenerateToken(OidToString(id), now), now)

Login(email, password) ==
  /\ last' = LoginResponse(email, password)
  /\ snap' = Null
  /\ UNCHANGED <<users, nextUser, hs, nonUserVars>>

LoginController == \E email \in Emails, password \in Passwords : Login(email, password)

\* accounts registered with any of the passwords
RegisterController == CreateUser(Passwords)

\* the client keeps the token of the response it just got
KeepToken ==
  /\ last.op \in {"register", "login"} /\ last.status \in {200, 201}
  /\ held' = [token |-> last.token, at |-> last.issuedAt, user |-> last.actor]
  /\ UNCHANGED <<now, localStorage, userVars, postVars, catVars>>

\* the clock readings at which requests arrive: the first ticks, and the
\* ticks around the end of the first hour
ClockReadings == (0..MaxLate) \cup ((Hour - TicksPerSecond)..Horizon)
\* time passes between two requests
Tick ==
  \E t \in ClockReadings :
    /\ t > now
    /\ now' = t
    /\ UNCHANGED <<held, localStorage, userVars, postVars, catVars>>

\* what a client can put in the place of a token: the token it holds, that
\* token signed with another key, a string that is no JWT
TokensInHand ==
  IF held = Null THEN {Garbage}
  ELSE {held.token, [held.token EXCEPT !.sig = OtherSecret], Garbage}
\* the Authorization headers a client sends
ClientHeaders ==
  {NoHeader, Header(<<>>), Header(<<Word("Bearer")>>)}
    \cup {Bearer(t) : t \in TokensInHand}
    \cup {Header(<<t>>) : t \in TokensInHand}

\* verifyToken on a request, up to its response or its call of next()
VerifyTokenRequest ==
  \E authHeader \in ClientHeaders :
    LET out == VerifyToken(authHeader, now) IN
    /\ last' = [op |-> "verify", actor |-> FreshOid, target |-> FreshOid,
                status |-> out.status, next |-> out.next, userId |-> out.userId,
                header |-> authHeader]
    /\ snap' = Null
    /\ UNCHANGED <<users, nextUser, hs, nonUserVars>>

\* verifyToken answered and did not call next()
Rejected(op, out) ==
  /\ last' = Response(op, FreshOid, FreshOid, out.status)
  /\ snap' = Null
  /\ UNCHANGED <<users, nextUser, hs, nonUserVars>>

\* the route without its middleware
PutUser_unguarded(authHeader) == UpdateUserController
\* router.put('/:id', verifyToken, updateUserController)
PutUser(authHeader) ==
  IF VerifyToken(authHeader, now).next = 1 THEN UpdateUserController
  ELSE Rejected("update", VerifyToken(authHeader, now))
\* router.delete('/:id', verifyToken, deleteUserController)
DeleteUser(authHeader) ==
  IF VerifyToken(authHeader, now).next = 1 THEN DeleteUserController
  ELSE Rejected("delete", VerifyToken(authHeader, now))
\* router.put('/:id/profile', verifyToken, updateProfileController) and
\* router.put('/:id/bio', verifyToken, updateBioController)
PutProfile(authHeader) ==
  IF VerifyToken(authHeader, now).next = 1 THEN UpdateProfileController
  ELSE Rejected("profile", VerifyToken(authHeader, now))

PutUserRoute == \E authHeader \in ClientHeaders : PutUser(authHeader)
DeleteUserRoute == \E authHeader \in ClientHeaders : DeleteUser(authHeader)
PutProfileRoute == \E authHeader \in ClientHeaders : PutProfile(authHeader)

\* tokens: issued by register, kept, presented as the clock runs
NextToken ==
  \/ CreateUserController
  \/ LoginController
  \/ UpdateUserController
  \/ KeepToken
  \/ Tick
  \/ VerifyTokenRequest

SpecToken == Init /\ [][NextToken]_vars

\* credentials: register, login, change of email or password, delete
NextLogin ==
  \/ RegisterController
  \/ LoginController
  \/ UpdateUser(Passwords)
  \/ DeleteUserController

SpecLogin == Init /\ [][NextLogin]_vars

\* the routes behind verifyToken
NextGuard ==
  \/ CreateUserController
  \/ KeepToken
  \/ Tick
  \/ PutUserRoute
  \/ DeleteUserRoute
  \/ PutProfileRoute

SpecGuard == Init /\ [][NextGuard]_vars

\* ---------------------------------------------------------------- the body behind verifyToken
\* a middleware that fills req.body.userId only where the client left it out
BodyAfterVerify_keepsClientValue(authHeader, body, ticks) ==
  IF VerifyToken(authHeader, ticks).next = 1 /\ body.userId = Undefined
  THEN [body EXCEPT !.userId = TokenPart(authHeader).userId]
  ELSE body
\* req.body as the next stage finds it: verifyToken assigns
\* req.body.userId = decoded.userId before it calls next()
BodyAfterVerify(authHeader, body, ticks) ==
  IF VerifyToken(authHeader, ticks).next = 1
  THEN [body EXCEPT !.userId = TokenPart(authHeader).userId]
  ELSE body

\* a request to a route mounted as (verifyToken, controller), with the
\* userId the client put in its body
GatedRequest ==
  \E authHeader \in ClientHeaders, sent \in BodyIds :
    LET out == VerifyToken(authHeader, now) IN
    /\ last' = [op |-> "gated", actor |-> FreshOid, target |-> FreshOid,
                status |-> out.status, next |-> out.next, sent |-> sent,
                userId |-> BodyAfterVerify(authHeader, [userId |-> sent], now).userId]
    /\ snap' = Null
    /\ UNCHANGED <<users, nextUser, hs, nonUserVars>>

NextBody ==
  \/ CreateUserController
  \/ KeepToken
  \/ Tick
  \/ GatedRequest

SpecBody == Init /\ [][NextBody]_vars

\* ---------------------------------------------------------------- the client
\* the JSON body of a login response: { message, token } on success,
\* { message } otherwise
LoginBody(r) ==
  IF r.status = 200 THEN [message |-> Word("Login successful"), token |-> r.token]
  ELSE [message |-> Word("Invalid email or password")]
\* data.key of a parsed body: undefined for a key the body does not have
Field(data, key) == IF key \in DOMAIN data THEN data[key] ELSE Undefined
\* localStorage.setItem stores String(value)
StringOf(value) == IF value = Undefined THEN Word("undefined") ELSE value
\* response.ok
ResponseOk(r) == r.status >= 200 /\ r.status <= 299

\* LoginPage.handleLogin: the request, the server's answer, and what the
\* page does with it
HandleLogin(email, password) ==
  LET r == LoginResponse(email, password)
      data == LoginBody(r)
  IN
  /\ last' = r
  /\ snap' = Null
  /\ IF ResponseOk(r)
     THEN localStorage' = [token |-> StringOf(Field(data, "token")),
                           userId |-> StringOf(Field(data, "userId"))]
     ELSE UNCHANGED localStorage
  /\ UNCHANGED <<users, nextUser, hs, postVars, catVars, now, held>>

HandleLoginPage == \E email \in Emails, password \in Passwords : HandleLogin(email, password)

\* MainPage.handleLogout
HandleLogout ==
  /\ localStorage' = [token |-> Null, userId |-> Null]
  /\ UNCHANGED <<userVars, postVars, catVars, now, held>>

NextClient ==
  \/ RegisterController
  \/ DeleteUserController
  \/ Tick
  \/ HandleLoginPage
  \/ HandleLogout

SpecClient == Init /\ [][NextClient]_vars

\* ---------------------------------------------------------------- Product model
\* a string field is falsy when absent or empty
Truthy(x) == x # Missing /\ x # ""
\* a || b
Or(a, b) == IF Truthy(a) THEN a ELSE b

\* what a request says about a product; rest tells whether price and link
\* (and source, where the client supplies it) are there
ProductData(brand, name, type, color, image, rest) ==
  [brand |-> brand, name |-> name, type |-> type, color |-> color,
   image |-> image, rest |-> rest]

\* ProductSchema: brand, type, color, price, link, image and source are
\* required (an empty string does not satisfy required)
ProductInvalid(d) ==
  ~Truthy(d.brand) \/ ~Truthy(d.type) \/ ~Truthy(d.color) \/ ~Truthy(d.image) \/ ~d.rest

\* ProductSchema default: name 'Untitled Item' when the data has no name
NewProductDoc(d) ==
  [brand |-> d.brand, name |-> IF d.name = Missing THEN "Untitled Item" ELSE d.name,
   type |-> d.type, color |-> d.color, image |-> d.image]

\* Product.create for each document of a list, in order
RECURSIVE InsertAll(_, _, _)
InsertAll(store, next, docs) ==
  IF docs = <<>> THEN store
  ELSE InsertAll([store EXCEPT ![next] = Head(docs)], next + 1, Tail(docs))

\* ---------------------------------------------------------------- OOTD posts
Texts == {"nice"}
\* values of new Date() when a comment is pushed
Times == 1..MaxTime
\* the like/save lists a PUT body may carry
PutLists ==
  {<<>>} \cup {<<a>> : a \in UserOids} \cup {<<a, a>> : a \in UserOids}

\* OOTDPostSchema defaults: empty likes, comments and saves
NewPostDoc(userId) ==
  [userId |-> userId, likes |-> <<>>, saves |-> <<>>, comments |-> <<>>]

\* $push in place of $addToSet
AddToSet_push(s, x) == Append(s, x)
\* $addToSet: append unless already an element
AddToSet(s, x) == IF Includes(s, x) THEN s ELSE Append(s, x)
\* $pull: remove every occurrence
Pull(s, x) == Without(s, x)

PostResponse(op, post, actor, member, status) ==
  [op |-> op, post |-> post, actor |-> actor, member |-> member, status |-> status]

\* Mongoose casts the filter id and the update operand before it writes:
\* a string that is not an ObjectId is a CastError
CastFails(x) == x.kind # "hex"

\* createNotification(notificationData)
NotificationDoc(owner, type, relatedId, actor) ==
  [userId |-> owner, type |-> type, relatedId |-> relatedId,
   message |-> [verb |-> type, actor |-> actor], isRead |-> FALSE]

\* if (ootdPost.userId.toString() !== userId): the owner's id as a lower-case
\* hex string against the string the client sent
NotifiesOwner(owner, bodyUserId) == OidToString(owner) # bodyUserId

\* the products field of a POST /api/ootd-posts body: absent, or a list of
\* product descriptions
NoProducts == [sent |-> FALSE, items |-> <<>>]
ProductList(items) == [sent |-> TRUE, items |-> items]

\* if (brand && type && color && price && link)
Qualifies(d) == Truthy(d.brand) /\ Truthy(d.type) /\ Truthy(d.color) /\ d.rest
\* productData: the description with the post's image and the default name
PostProductData(d, imageURL) ==
  ProductData(d.brand, Or(d.name, "Untitled Item"), d.type, d.color, imageURL, TRUE)
CreatedProducts(items, imageURL) ==
  LET q == SelectSeq(items, Qualifies)
  IN [i \in 1..Len(q) |-> NewProductDoc(PostProductData(q[i], imageURL))]

\* createOOTDPostController: OOTDPost.create, then the loop over products,
\* which throws when the body has no products field
CreateOOTDPostRequest(b, hasImage, list) ==
  LET docs == CreatedProducts(list.items, "i") IN
  /\ nextPost <= MaxPosts
  /\ IF CastFails(b) \/ ~hasImage
     THEN \* validation of the new document fails
          /\ lastP' = PostResponse("create", FreshOid, b, FALSE, 500)
          /\ UNCHANGED <<posts, nextPost, products, nextProduct>>
     ELSE /\ nextProduct + Len(docs) <= MaxProducts + 1
          /\ posts' = [posts EXCEPT ![nextPost] = NewPostDoc(NewObjectId(b))]
          /\ nextPost' = nextPost + 1
          /\ products' = InsertAll(products, nextProduct, docs)
          /\ nextProduct' = nextProduct + Len(docs)
          /\ lastP' = PostResponse("create", nextPost, b, FALSE,
                                   IF list.sent THEN 201 ELSE 500)
  /\ UNCHANGED <<notifications, userVars, closet, lastC, authVars>>

\* createOOTDPostController, for the product lists the requests draw from
CreateOOTDPost(lists) ==
  \E b \in BodyIds, hasImage \in BOOLEAN, list \in lists :
    CreateOOTDPostRequest(b, hasImage, list)

\* posts that bring no product
CreateOOTDPostController == CreateOOTDPost({NoProducts, ProductList(<<>>)})

\* updateOOTDPostController: findByIdAndUpdate(id, req.body) sets each
\* field the body carries
UpdatedPost(doc, body) ==
  IF body.field = "likes" THEN [doc EXCEPT !.likes = body.val]
  ELSE IF body.field = "saves" THEN [doc EXCEPT !.saves = body.val]
  ELSE IF body.field = "comments" THEN [doc EXCEPT !.comments = body.val]
  ELSE doc

\* request bodies of PUT /api/ootd-posts/:id
PutBodies ==
  {[field |-> f, val |-> l] : f \in {"likes", "saves"}, l \in PutLists}
    \cup {[field |-> "caption", val |-> <<>>], [field |-> "comments", val |-> <<>>]}

UpdateOOTDPostController ==
  \E p \in HexStrings(PostOids) \cup {Garbage}, body \in PutBodies :
    LET id == NewObjectId(p) IN
    /\ IF CastFails(p)
       THEN lastP' = PostResponse("update", FreshOid, Undefined, FALSE, 500) /\ UNCHANGED posts
       ELSE IF ~Exists(posts, id)
       THEN lastP' = PostResponse("update", id, Undefined, FALSE, 404) /\ UNCHANGED posts
       ELSE /\ posts' = [posts EXCEPT ![id] = UpdatedPost(posts[id], body)]
            /\ lastP' = PostResponse("update", id, Undefined, FALSE, 200)
    /\ UNCHANGED <<nextPost, notifications, nonPostVars>>

\* deleteOOTDPostController: findByIdAndDelete
DeleteOOTDPostController ==
  \E p \in HexStrings(PostOids) \cup {Garbage} :
    LET id == NewObjectId(p) IN
    /\ IF CastFails(p)
       THEN lastP' = PostResponse("delete", FreshOid, Undefined, FALSE, 500) /\ UNCHANGED posts
       ELSE IF ~Exists(posts, id)
       THEN lastP' = PostResponse("delete", id, Undefined, FALSE, 404) /\ UNCHANGED posts
       ELSE /\ posts' = [posts EXCEPT ![id] = Null]
            /\ lastP' = PostResponse("delete", id, Undefined, FALSE, 200)
    /\ UNCHANGED <<nextPost, notifications, nonPostVars>>

\* the post after findByIdAndUpdate with the operator of each interaction
Interacted(doc, op, actorId, text) ==
  IF op = "like" THEN [doc EXCEPT !.likes = AddToSet(@, actorId)]
  ELSE IF op = "unlike" THEN [doc EXCEPT !.likes = Pull(@, actorId)]
  ELSE IF op = "save" THEN [doc EXCEPT !.saves = AddToSet(@, actorId)]
  ELSE IF op = "unsave" THEN [doc EXCEPT !.saves = Pull(@, actorId)]
  ELSE [doc EXCEPT !.comments =
                     Append(@, [userId |-> actorId, text |-> text.text,
                                timestamp |-> text.timestamp])]

\* like, save and comment notify the owner; unlike and unsave do not
Notifying(op) == op \in {"like", "save", "comment"}

IsMember(doc, op, actorId) ==
  IF op = "like" THEN Includes(doc.likes, actorId)
  ELSE IF op = "save" THEN Includes(doc.saves, actorId)
  ELSE FALSE

\* likeOOTDPostController, unlikeOOTDPostController, addCommentController,
\* saveOOTDPostController, unsaveOOTDPostController
InteractionRequest(op, p, b, text) ==
  LET id == NewObjectId(p)
      actorId == NewObjectId(b)
      doc == Interacted(posts[id], op, actorId, text)
  IN
  /\ IF CastFails(p) \/ CastFails(b)
     THEN /\ lastP' = PostResponse(op, FreshOid, b, FALSE, 500)
          /\ UNCHANGED <<posts, notifications>>
     ELSE IF ~Exists(posts, id)
     THEN /\ lastP' = PostResponse(op, id, b, FALSE, 404)
          /\ UNCHANGED <<posts, notifications>>
     ELSE /\ op = "comment" => Len(posts[id].comments) < MaxComments
          /\ posts' = [posts EXCEPT ![id] = doc]
          /\ IF Notifying(op) /\ NotifiesOwner(doc.userId, b)
             THEN /\ Len(notifications) < MaxNotifications
                  /\ notifications' =
                       Append(notifications, NotificationDoc(doc.userId, op, id, b))
             ELSE UNCHANGED notifications
          /\ lastP' = PostResponse(op, id, b, IsMember(posts[id], op, actorId), 200)
  /\ UNCHANGED <<nextPost, nonPostVars>>

PostParams == HexStrings(PostOids) \cup {Garbage}
PostActors == HexStrings(UserOids) \cup {Garbage}

LikeOOTDPostController ==
  \E p \in PostParams, b \in PostActors : InteractionRequest("like", p, b, "")
UnlikeOOTDPostController ==
  \E p \in PostParams, b \in PostActors : InteractionRequest("unlike", p, b, "")
SaveOOTDPostController ==
  \E p \in PostParams, b \in PostActors : InteractionRequest("save", p, b, "")
UnsaveOOTDPostController ==
  \E p \in PostParams, b \in PostActors : InteractionRequest("unsave", p, b, "")
AddCommentController ==
  \E p \in PostParams, b \in PostActors, text \in Texts, date \in Times :
    InteractionRequest("comment", p, b, [text |-> text, timestamp |-> date])

NextPost ==
  \/ CreateOOTDPostController
  \/ UpdateOOTDPostController
  \/ DeleteOOTDPostController
  \/ LikeOOTDPostController
  \/ UnlikeOOTDPostController
  \/ SaveOOTDPostController
  \/ UnsaveOOTDPostController
  \/ AddCommentController

SpecPost == Init /\ [][NextPost]_vars

\* ---------------------------------------------------------------- interleaved likes and saves
\* likeOOTDPostController, unlikeOOTDPostController, saveOOTDPostController
\* and unsaveOOTDPostController run up to each await and then yield:
\* OOTDPost.findByIdAndUpdate, then (like and save) createNotification
SetOps == {"like", "unlike", "save", "unsave"}
\* the ids these requests carry: well-formed, of a post that may be stored
\* and of a user
SetParams == {HexStr(o, FALSE) : o \in PostOids}
SetActors == {HexStr(o, FALSE) : o \in UserOids}
\* the post the requests are about: POST /api/ootd-posts by user 1
CreateOnePost == CreateOOTDPostRequest(HexStr(1, FALSE), TRUE, ProductList(<<>>))
NotifyingInFlight == Cardinality({h \in Handlers : InFlight(h) /\ Notifying(hs[h].op)})

\* up to the first await: the ids are read from the request (seen is not a
\* local of the handler: it records the post as stored when the request
\* arrived)
InteractBegin(h) ==
  \E op \in SetOps, p \in SetParams, b \in SetActors :
    /\ ~InFlight(h)
    /\ Notifying(op) => Len(notifications) + NotifyingInFlight < MaxNotifications
    /\ hs' = [hs EXCEPT ![h] = [pc |-> "findByIdAndUpdate", op |-> op, p |-> p, b |-> b,
                                ootdPost |-> Null,
                                seen |-> IF NewObjectId(p) \in PostOids
                                         THEN posts[NewObjectId(p)] ELSE Null]]
    /\ UNCHANGED <<users, nextUser, last, snap, postVars, catVars, authVars>>

\* an update computed from the document as the handler first saw it
UpdateBase_staleRead(h) == hs[h].seen
\* $addToSet and $pull are applied by the store to the document it holds
\* when the update runs
UpdateBase(h) == posts[NewObjectId(hs[h].p)]

\* await OOTDPost.findByIdAndUpdate(id, { $addToSet | $pull }, { new: true })
InteractUpdate(h) ==
  LET op == hs[h].op
      b == hs[h].b
      id == NewObjectId(hs[h].p)
      doc == Interacted(UpdateBase(h), op, NewObjectId(b), "")
  IN
  /\ hs[h].pc = "findByIdAndUpdate"
  /\ IF CastFails(hs[h].p) \/ CastFails(b)
     THEN /\ lastP' = PostResponse(op, FreshOid, b, FALSE, 500)
          /\ hs' = [hs EXCEPT ![h] = Idle]
          /\ UNCHANGED posts
     ELSE IF ~Exists(posts, id) \/ UpdateBase(h) = Null
     THEN /\ lastP' = PostResponse(op, id, b, FALSE, 404)
          /\ hs' = [hs EXCEPT ![h] = Idle]
          /\ UNCHANGED posts
     ELSE /\ posts' = [posts EXCEPT ![id] = doc]
          /\ IF Notifying(op) /\ NotifiesOwner(doc.userId, b)
             THEN /\ hs' = [hs EXCEPT ![h].pc = "createNotification",
                                      ![h].ootdPost = doc]
                  /\ UNCHANGED lastP
             ELSE /\ hs' = [hs EXCEPT ![h] = Idle]
                  /\ lastP' = PostResponse(op, id, b, FALSE, 200)
  /\ UNCHANGED <<users, nextUser, last, snap, nextPost, notifications, catVars, authVars>>

\* await createNotification(...), then the 200 response
InteractNotify(h) ==
  LET id == NewObjectId(hs[h].p) IN
  /\ hs[h].pc = "createNotification"
  /\ notifications' =
       Append(notifications, NotificationDoc(hs[h].ootdPost.userId, hs[h].op, id, hs[h].b))
  /\ lastP' = PostResponse(hs[h].op, id, hs[h].b, FALSE, 200)
  /\ hs' = [hs EXCEPT ![h] = Idle]
  /\ UNCHANGED <<users, nextUser, last, snap, posts, nextPost, catVars, authVars>>

NextAtomic ==
  \/ CreateOnePost
  \/ \E h \in Handlers : InteractBegin(h)
  \/ \E h \in Handlers : InteractUpdate(h)
  \/ \E h \in Handlers : InteractNotify(h)

SpecAtomic == Init /\ [][NextAtomic]_vars

\* ---------------------------------------------------------------- a failing Notification write
\* a controller that undoes its update when the notification fails
InteractionNotificationFails_rollback(op, p, b, text) ==
  /\ ~CastFails(p) /\ ~CastFails(b) /\ Exists(posts, NewObjectId(p))
  /\ Notifying(op) /\ NotifiesOwner(posts[NewObjectId(p)].userId, b)
  /\ lastP' = PostResponse(op, NewObjectId(p), b, FALSE, 500)
  /\ UNCHANGED <<posts, notifications, nextPost, nonPostVars>>
\* likeOOTDPostController, saveOOTDPostController, addCommentController
\* when Notification.create rejects (the store is unreachable or refuses
\* the write): findByIdAndUpdate has been applied, createNotification
\* throws, the catch answers 500
InteractionNotificationFails(op, p, b, text) ==
  LET id == NewObjectId(p)
      actorId == NewObjectId(b)
      doc == Interacted(posts[id], op, actorId, text)
  IN
  /\ ~CastFails(p) /\ ~CastFails(b) /\ Exists(posts, id)
  /\ Notifying(op) /\ NotifiesOwner(doc.userId, b)
  /\ op = "comment" => Len(posts[id].comments) < MaxComments
  /\ posts' = [posts EXCEPT ![id] = doc]
  /\ lastP' = PostResponse(op, id, b, IsMember(posts[id], op, actorId), 500)
  /\ UNCHANGED <<notifications, nextPost, nonPostVars>>

NotificationOutage ==
  \E op \in {"like", "save", "comment"}, p \in PostParams, b \in PostActors,
     text \in Texts, date \in Times :
    InteractionNotificationFails(op, p, b, [text |-> text, timestamp |-> date])

NextOutage ==
  \/ CreateOOTDPostController
  \/ LikeOOTDPostController
  \/ UnlikeOOTDPostController
  \/ SaveOOTDPostController
  \/ AddCommentController
  \/ NotificationOutage

SpecOutage == Init /\ [][NextOutage]_vars

\* ---------------------------------------------------------------- /api/notifications
\* relatedId when the body carries none (schema default null)
NoRelated == 0
\* the message string a client sends, or Undefined when the body has none
ClientMessages == {[verb |-> "text", actor |-> Undefined]}
NotificationTypes == {"follow"}

\* Notification.create(req.body): userId, type and message are required and
\* userId must cast to an ObjectId
NotificationInvalid(userId, type, message) ==
  CastFails(userId) \/ type = Missing \/ message = Undefined

\* createNotificationController: POST /api/notifications stores the body
CreateNotificationController ==
  \E userId \in BodyIds, type \in NotificationTypes \cup {Missing},
     related \in PostOids \cup {NoRelated},
     message \in ClientMessages \cup {Undefined} :
    /\ IF NotificationInvalid(userId, type, message)
       THEN /\ lastP' = PostResponse("notify", FreshOid, Undefined, FALSE, 500)
            /\ UNCHANGED notifications
       ELSE /\ Len(notifications) < MaxNotifications
            /\ notifications' =
                 Append(notifications,
                        [userId |-> NewObjectId(userId), type |-> type,
                         relatedId |-> related, message |-> message, isRead |-> FALSE])
            /\ lastP' = PostResponse("notify", FreshOid, Undefined, FALSE, 201)
    /\ UNCHANGED <<posts, nextPost, nonPostVars>>

\* the :id of a request names the i-th stored notification, or (i = 0) is a
\* well-formed id of no stored notification
NotificationParams == 0..MaxNotifications

\* markNotificationAsReadController: findByIdAndUpdate(id, { isRead: true })
MarkNotificationAsReadController ==
  \E i \in NotificationParams :
    /\ IF i \in 1..Len(notifications)
       THEN /\ notifications' = [notifications EXCEPT ![i].isRead = TRUE]
            /\ lastP' = PostResponse("read", FreshOid, Undefined, FALSE, 200)
       ELSE /\ lastP' = PostResponse("read", FreshOid, Undefined, FALSE, 404)
            /\ UNCHANGED notifications
    /\ UNCHANGED <<posts, nextPost, nonPostVars>>

\* deleteNotificationController: the service throws for a missing
\* notification, which the controller answers with 500
DeleteNotificationController ==
  \E i \in NotificationParams :
    /\ IF i \in 1..Len(notifications)
       THEN /\ notifications' =
                 SubSeq(notifications, 1, i - 1) \o
                 SubSeq(notifications, i + 1, Len(notifications))
            /\ lastP' = PostResponse("unnotify", FreshOid, Undefined, FALSE, 200)
       ELSE /\ lastP' = PostResponse("unnotify", FreshOid, Undefined, FALSE, 500)
            /\ UNCHANGED notifications
    /\ UNCHANGED <<posts, nextPost, nonPostVars>>

\* the handlers that write the Notification collection, with the posts
\* they write it for
NextNote ==
  \/ CreateOOTDPostController
  \/ DeleteOOTDPostController
  \/ LikeOOTDPostController
  \/ SaveOOTDPostController
  \/ AddCommentController
  \/ CreateNotificationController
  \/ MarkNotificationAsReadController
  \/ DeleteNotificationController

SpecNote == Init /\ [][NextNote]_vars

\* ---------------------------------------------------------------- /api/products
CatalogResponse(op, product, status) == [op |-> op, product |-> product, status |-> status]

\* request bodies of POST /api/products and POST /api/products/upsert
ProductBodies ==
  {ProductData("b", n, "t", c, i, TRUE) :
     n \in {"n", "", Missing}, c \in {"c1", "c2", Missing}, i \in {"i", Missing}}

\* createProductController: Product.create(req.body)
CreateProductController ==
  \E d \in ProductBodies :
    /\ IF ProductInvalid(d)
       THEN /\ lastC' = CatalogResponse("create", FreshOid, 500)
            /\ UNCHANGED <<products, nextProduct>>
       ELSE /\ nextProduct <= MaxProducts
            /\ products' = [products EXCEPT ![nextProduct] = NewProductDoc(d)]
            /\ nextProduct' = nextProduct + 1
            /\ lastC' = CatalogResponse("create", nextProduct, 201)
    /\ UNCHANGED <<closet, nonCatVars>>

\* Product.findOne({ name, brand, type, color })
Matches(doc, d) ==
  doc # Null /\ doc.name = d.name /\ doc.brand = d.brand
             /\ doc.type = d.type /\ doc.color = d.color
FindProduct(store, d) ==
  IF \E o \in DOMAIN store : Matches(store[o], d)
  THEN CHOOSE o \in DOMAIN store : Matches(store[o], d)
  ELSE FreshOid

\* if (!brand || !name || !type || !color || !price || !link)
UpsertIncomplete(d) ==
  ~Truthy(d.brand) \/ ~Truthy(d.name) \/ ~Truthy(d.type) \/ ~Truthy(d.color) \/ ~d.rest

\* upsertProductFromClarifaiController, for one request body
UpsertProduct(d) ==
  LET existingProduct == FindProduct(products, d) IN
  /\ IF UpsertIncomplete(d)
     THEN /\ lastC' = CatalogResponse("upsert", FreshOid, 400)
          /\ UNCHANGED <<products, nextProduct>>
     ELSE IF existingProduct # FreshOid
     THEN /\ lastC' = CatalogResponse("upsert", existingProduct, 200)
          /\ UNCHANGED <<products, nextProduct>>
     ELSE IF ProductInvalid(d)
     THEN /\ lastC' = CatalogResponse("upsert", FreshOid, 500)
          /\ UNCHANGED <<products, nextProduct>>
     ELSE /\ nextProduct <= MaxProducts
          /\ products' = [products EXCEPT ![nextProduct] = NewProductDoc(d)]
          /\ nextProduct' = nextProduct + 1
          /\ lastC' = CatalogResponse("upsert", nextProduct, 201)
  /\ UNCHANGED <<closet, nonCatVars>>

UpsertProductFromClarifaiController == \E d \in ProductBodies : UpsertProduct(d)

\* request bodies of PUT /api/products/:id
ProductPutBodies ==
  {[field |-> "type", val |-> ""], [field |-> "color", val |-> "c1"],
   [field |-> "color", val |-> "c2"]}
UpdatedProduct(doc, body) ==
  IF body.field = "type" THEN [doc EXCEPT !.type = body.val]
  ELSE [doc EXCEPT !.color = body.val]

ProductParams == HexStrings(ProductOids) \cup {Garbage}

\* updateProductController: findByIdAndUpdate(productId, req.body)
UpdateProductController ==
  \E p \in ProductParams, body \in ProductPutBodies :
    LET id == NewObjectId(p) IN
    /\ IF CastFails(p)
       THEN lastC' = CatalogResponse("update", FreshOid, 500) /\ UNCHANGED products
       ELSE IF ~Exists(products, id)
       THEN lastC' = CatalogResponse("update", id, 404) /\ UNCHANGED products
       ELSE /\ products' = [products EXCEPT ![id] = UpdatedProduct(products[id], body)]
            /\ lastC' = CatalogResponse("update", id, 200)
    /\ UNCHANGED <<nextProduct, closet, nonCatVars>>

\* deleteProductController: findByIdAndDelete(productId)
DeleteProductController ==
  \E p \in ProductParams :
    LET id == NewObjectId(p) IN
    /\ IF CastFails(p)
       THEN lastC' = CatalogResponse("delete", FreshOid, 500) /\ UNCHANGED products
       ELSE IF ~Exists(products, id)
       THEN lastC' = CatalogResponse("delete", id, 404) /\ UNCHANGED products
       ELSE /\ products' = [products EXCEPT ![id] = Null]
            /\ lastC' = CatalogResponse("delete", id, 200)
    /\ UNCHANGED <<nextProduct, closet, nonCatVars>>

\* product descriptions a POST /api/ootd-posts body may list
PostProducts ==
  {ProductData("b", "n", "t", c, Missing, TRUE) : c \in {"c1", Missing}}
PostProductLists ==
  {ProductList(<<d>>) : d \in PostProducts}
    \cup {ProductList(<<d, e>>) : d \in PostProducts, e \in PostProducts}

\* createOOTDPostController for a post that lists products
CreateOOTDPostWithProducts == CreateOOTDPost(PostProductLists)

\* the handlers that write the Product collection
NextCatalog ==
  \/ CreateProductController
  \/ UpsertProductFromClarifaiController
  \/ UpdateProductController
  \/ DeleteProductController
  \/ CreateOOTDPostWithProducts

SpecCatalog == Init /\ [][NextCatalog]_vars

\* ---------------------------------------------------------------- interleaved upserts
\* upsertProductFromClarifaiController runs up to each await and then
\* yields: Product.findOne, then Product.create
Upserting == Cardinality({h \in Handlers : InFlight(h)})

\* a collection with a unique index on (name, brand, type, color)
DuplicateKey_uniqueIndex(store, d) == FindProduct(store, d) # FreshOid
\* ProductSchema declares no unique index: Product.create never fails on a
\* document equal to a stored one
DuplicateKey(store, d) == FALSE

\* up to the first await: the body is read and checked for its fields
UpsertBegin(h) ==
  \E d \in ProductBodies :
    /\ ~InFlight(h)
    /\ nextProduct + Upserting <= MaxProducts
    /\ IF UpsertIncomplete(d)
       THEN /\ lastC' = CatalogResponse("upsert", FreshOid, 400)
            /\ UNCHANGED hs
       ELSE /\ hs' = [hs EXCEPT ![h] = [pc |-> "findOne", d |-> d]]
            /\ UNCHANGED lastC
    /\ UNCHANGED <<users, nextUser, last, snap, products, nextProduct, closet,
                   postVars, authVars>>

\* await Product.findOne({ name, brand, type, color })
UpsertLookup(h) ==
  LET existingProduct == FindProduct(products, hs[h].d) IN
  /\ hs[h].pc = "findOne"
  /\ IF existingProduct # FreshOid
     THEN /\ lastC' = CatalogResponse("upsert", existingProduct, 200)
          /\ hs' = [hs EXCEPT ![h] = Idle]
     ELSE /\ hs' = [hs EXCEPT ![h].pc = "create"]
          /\ UNCHANGED lastC
  /\ UNCHANGED <<users, nextUser, last, snap, products, nextProduct, closet,
                 postVars, authVars>>

\* await Product.create(clarifaiProductData), then the response
UpsertInsert(h) ==
  /\ hs[h].pc = "create"
  /\ IF ProductInvalid(hs[h].d) \/ DuplicateKey(products, hs[h].d)
     THEN /\ lastC' = CatalogResponse("upsert", FreshOid, 500)
          /\ UNCHANGED <<products, nextProduct>>
     ELSE /\ products' = [products EXCEPT ![nextProduct] = NewProductDoc(hs[h].d)]
          /\ nextProduct' = nextProduct + 1
          /\ lastC' = CatalogResponse("upsert", nextProduct, 201)
  /\ hs' = [hs EXCEPT ![h] = Idle]
  /\ UNCHANGED <<users, nextUser, last, snap, closet, postVars, authVars>>

NextUpsert ==
  \/ \E h \in Handlers : UpsertBegin(h)
  \/ \E h \in Handlers : UpsertLookup(h)
  \/ \E h \in Handlers : UpsertInsert(h)
  \/ DeleteProductController

SpecUpsert == Init /\ [][NextUpsert]_vars

\* ---------------------------------------------------------------- /api/closet-items
\* request bodies of POST /api/closet-items; seasonOccasion tells whether
\* both season and occasion are there
ClosetBodies ==
  [userId : {HexStr(1, FALSE), Undefined},
   productId : {HexStr(o, FALSE) : o \in ProductOids} \cup {Undefined, Garbage},
   name : {"rn", Missing}, type : {"rt", Missing}, color : {"rc", Missing},
   customImage : {"ri", Missing}, seasonOccasion : BOOLEAN]

\* iOwnThisProductController: the early return, or 0 when the controller
\* goes on to createClosetItem
OwnStatus(store, body) ==
  IF ~body.seasonOccasion THEN 400
  ELSE IF body.productId = Undefined
       THEN IF Truthy(body.name) THEN 0 ELSE 400
  ELSE IF CastFails(body.productId) THEN 500
  ELSE IF ~Exists(store, NewObjectId(body.productId)) THEN 404
  ELSE 0

\* iOwnThisProductController: closetItemData as handed to createClosetItem.
\* With a product, type, customImage and name are the product's or else
\* the request's; color is the request's.
ControllerData(store, body) ==
  LET base == [userId |-> body.userId, productId |-> FreshOid, name |-> Missing,
               type |-> body.type, color |-> body.color,
               customImage |-> body.customImage]
      product == store[NewObjectId(body.productId)]
  IN IF body.productId = Undefined
     THEN [base EXCEPT !.name = body.name]
     ELSE [base EXCEPT !.productId = NewObjectId(body.productId),
                       !.type = Or(product.type, body.type),
                       !.customImage = Or(product.image, body.customImage),
                       !.name = Or(product.name, body.name)]

\* the merge with the request's value first
ServiceData_requestFirst(store, data) ==
  LET product == store[data.productId]
  IN IF data.productId = FreshOid THEN data
     ELSE [data EXCEPT !.type = Or(product.type, data.type),
                       !.color = Or(data.color, product.color),
                       !.customImage = Or(product.image, data.customImage),
                       !.name = Or(product.name, data.name)]
\* createClosetItem: with a productId, type, color, customImage and name
\* are the product's or else the data's
ServiceData(store, data) ==
  LET product == store[data.productId]
  IN IF data.productId = FreshOid THEN data
     ELSE [data EXCEPT !.type = Or(product.type, data.type),
                       !.color = Or(product.color, data.color),
                       !.customImage = Or(product.image, data.customImage),
                       !.name = Or(product.name, data.name)]

\* ClosetItemSchema: userId, type and color are required (season and
\* occasion are there once the controller let the request through)
ClosetItemInvalid(data) ==
  CastFails(data.userId) \/ ~Truthy(data.type) \/ ~Truthy(data.color)

NewClosetItem(data) == [data EXCEPT !.userId = NewObjectId(data.userId)]

\* iOwnThisProductController with createClosetItem, for one request body
IOwnThisProduct(body) ==
  LET st == OwnStatus(products, body)
      data == ServiceData(products, ControllerData(products, body))
  IN
  /\ IF st # 0
     THEN /\ lastC' = CatalogResponse("own", FreshOid, st)
          /\ UNCHANGED closet
     ELSE IF ClosetItemInvalid(data)
     THEN /\ lastC' = CatalogResponse("own", data.productId, 500)
          /\ UNCHANGED closet
     ELSE /\ Len(closet) < MaxCloset
          /\ closet' = Append(closet, NewClosetItem(data))
          /\ lastC' = CatalogResponse("own", data.productId, 201)
  /\ UNCHANGED <<products, nextProduct, nonCatVars>>

IOwnThisProductController == \E body \in ClosetBodies : IOwnThisProduct(body)

\* the :id of a request names the i-th stored closet item, or (i = 0) is a
\* well-formed id of no stored item
ClosetParams == 0..MaxCloset

\* deleteClosetItemController: the service throws for a missing item
DeleteClosetItemController ==
  \E i \in ClosetParams :
    /\ IF i \in 1..Len(closet)
       THEN /\ closet' = SubSeq(closet, 1, i - 1) \o SubSeq(closet, i + 1, Len(closet))
            /\ lastC' = CatalogResponse("disown", FreshOid, 200)
       ELSE /\ lastC' = CatalogResponse("disown", FreshOid, 500)
            /\ UNCHANGED closet
    /\ UNCHANGED <<products, nextProduct, nonCatVars>>

\* the closet with the products its items are made from
NextCloset ==
  \/ CreateProductController
  \/ UpdateProductController
  \/ DeleteProductController
  \/ IOwnThisProductController
  \/ DeleteClosetItemController

SpecCloset == Init /\ [][NextCloset]_vars

\* ---------------------------------------------------------------- properties: follow / unfollow
ExistingUsers == {o \in UserOids : Exists(users, o)}
Relation(store, a, b) ==
  <<store[a].following, store[a].followingCount, store[b].followers, store[b].followerCount>>

\* C1: a successful follow A->B immediately followed by a successful
\* unfollow A->B leaves A.following, A.followingCount, B.followers and
\* B.followerCount as they were before the follow.
C1_FollowUnfollowRoundTrip ==
  (last.op = "unfollow" /\ last.status = 200 /\ snap # Null)
    => Relation(users, last.actor, last.target) = Relation(snap, last.actor, last.target)

C1_Witness ==
  /\ last.op = "unfollow" /\ last.status = 200 /\ snap # Null
  /\ ~Includes(snap[last.actor].following, last.target)
  /\ snap[last.actor].followerCount = 1

\* C2: between existing users, a follow A->B when A already follows B and
\* an unfollow A->B when A does not follow B are answered 400 and change no
\* user document.
C2_ConflictRejected ==
  [][\A a, b \in ExistingUsers :
       (last'.actor = a /\ last'.target = b) =>
         /\ (last'.op = "follow" /\ Includes(users[a].following, b))
              => (last'.status = 400 /\ users' = users)
         /\ (last'.op = "unfollow" /\ ~Includes(users[a].following, b))
              => (last'.status = 400 /\ users' = users)]_vars

C2_Witness ==
  /\ last.op = "follow" /\ last.status = 400 /\ last.actor # last.target
  /\ Exists(users, last.actor) /\ Exists(users, last.target)
  /\ Includes(users[last.actor].following, last.target)
  /\ users[last.actor].followingCount = 1
  /\ users[last.target].followerCount = 1

\* C3: a follow request whose actor id equals its target id is answered 400
\* and changes no user document, and no user is ever in its own following
\* or followers list.
NoSelfFollow ==
  \A o \in ExistingUsers :
    ~Includes(users[o].following, o) /\ ~Includes(users[o].followers, o)

C3_SelfFollowRejected ==
  /\ []NoSelfFollow
  /\ [][(last'.op = "follow" /\ last'.actor = last'.target /\ last'.actor \in UserOids)
          => (last'.status = 400 /\ users' = users)]_vars

C3_Witness ==
  /\ last.op = "follow" /\ last.status = 400
  /\ last.actor = last.target /\ Exists(users, last.actor)

\* C4: with one request handled at a time, every stored user has
\* followerCount = length(followers), followingCount = length(following),
\* and neither counter negative.
CountsMirrorLists(store) ==
  \A o \in DOMAIN store : store[o] # Null =>
    /\ store[o].followerCount = Len(store[o].followers)
    /\ store[o].followingCount = Len(store[o].following)
    /\ store[o].followerCount >= 0 /\ store[o].followingCount >= 0

C4_CountsMirrorListsSequential == CountsMirrorLists(users)

C4_Witness ==
  /\ last.op = "unfollow" /\ last.status = 200
  /\ \E o \in ExistingUsers : users[o].followingCount = 1 /\ users[o].bio = "hi"

\* C5: under any interleaving of concurrent follow/unfollow handlers,
\* whenever no handler is in flight every stored user has
\* followerCount = length(followers) and followingCount = length(following).
Quiescent == \A h \in Handlers : ~InFlight(h)

C5_CountsMirrorListsConcurrent == Quiescent => CountsMirrorLists(users)

\* C6: whenever no follow/unfollow handler is in flight, for existing users
\* A and B, B is in A.following exactly when A is in B.followers.
C6_FollowSymmetric ==
  Quiescent =>
    \A a, b \in ExistingUsers :
      Includes(users[a].following, b) <=> Includes(users[b].followers, a)

\* ---------------------------------------------------------------- properties: post interactions
ExistingPosts == {o \in PostOids : Exists(posts, o)}
IsHex(x) == x.kind = "hex"

\* C7: a like of post P by a user who is already in P.likes leaves P.likes,
\* and so its length, as it was; the same for save and P.saves.
C7_LikeIdempotent ==
  [][\A p \in ExistingPosts :
       (lastP'.post = p /\ IsHex(lastP'.actor)) =>
         /\ (lastP'.op = "like" /\ Includes(posts[p].likes, NewObjectId(lastP'.actor)))
              => (lastP'.status = 200 /\ posts'[p].likes = posts[p].likes)
         /\ (lastP'.op = "save" /\ Includes(posts[p].saves, NewObjectId(lastP'.actor)))
              => (lastP'.status = 200 /\ posts'[p].saves = posts[p].saves)]_vars

C7_Witness ==
  /\ lastP.op = "like" /\ lastP.status = 200 /\ lastP.member
  /\ Exists(posts, lastP.post)
  /\ Occurrences(posts[lastP.post].likes, NewObjectId(lastP.actor)) = 1

\* C8: a like, comment or save on an existing post by an actor other than
\* the post's owner creates exactly one Notification, for the owner, with
\* the action as type and the post id as relatedId; when the actor is the
\* owner no Notification is created.
C8_OneNotificationPerInteraction ==
  [][\A p \in ExistingPosts :
       (lastP'.post = p /\ IsHex(lastP'.actor) /\ Notifying(lastP'.op)) =>
         IF NewObjectId(lastP'.actor) # posts[p].userId
         THEN /\ Len(notifications') = Len(notifications) + 1
              /\ SubSeq(notifications', 1, Len(notifications)) = notifications
              /\ notifications'[Len(notifications')].userId = posts[p].userId
              /\ notifications'[Len(notifications')].type = lastP'.op
              /\ notifications'[Len(notifications')].relatedId = p
         ELSE notifications' = notifications]_vars

\* C9: a like by a user already in P.likes, or a save by a user already in
\* P.saves, changes nothing in the store: the post is unchanged and no
\* Notification is created.
C9_DuplicateLikeNoOp ==
  [][\A p \in ExistingPosts :
       (/\ lastP'.post = p /\ IsHex(lastP'.actor)
        /\ \/ lastP'.op = "like" /\ Includes(posts[p].likes, NewObjectId(lastP'.actor))
           \/ lastP'.op = "save" /\ Includes(posts[p].saves, NewObjectId(lastP'.actor)))
         => (posts' = posts /\ notifications' = notifications)]_vars

\* C10: no user id appears more than once in any post's likes or saves.
C10_LikesAreSets ==
  \A p \in ExistingPosts, u \in UserOids :
    Occurrences(posts[p].likes, u) <= 1 /\ Occurrences(posts[p].saves, u) <= 1

\* C11: every stored Notification was created by a like, comment or save
\* of an existing post, performed by a user other than its recipient: a
\* step that stores a Notification is such an interaction, and the
\* recipient is not the actor.
C11_NotificationsFromOthersActions ==
  [][Len(notifications') > Len(notifications) =>
       /\ Notifying(lastP'.op) /\ lastP'.status = 200 /\ IsHex(lastP'.actor)
       /\ notifications'[Len(notifications')].userId # NewObjectId(lastP'.actor)]_vars

\* ---------------------------------------------------------------- properties: comments
IsPrefix(s, t) == Len(s) <= Len(t) /\ SubSeq(t, 1, Len(s)) = s

\* C12: while a post exists, its comments list only grows at the end: every
\* request leaves the comments it found in place, with the same user, text
\* and timestamp and in the same order.
C12_CommentsAppendOnly ==
  [][\A p \in PostOids :
       (Exists(posts, p) /\ Exists(posts', p))
         => IsPrefix(posts[p].comments, posts'[p].comments)]_vars

\* ---------------------------------------------------------------- properties: catalog and closet
\* the stored value is the product's when the product has one, and the
\* request's otherwise
ProductFirst(stored, ofProduct, ofRequest) ==
  IF Truthy(ofProduct) THEN stored = ofProduct ELSE stored = ofRequest

\* C13: a closet item created from a request that references a stored
\* product has the product's type, color, image and name wherever the
\* product has them, whatever the request supplied, and the request's value
\* only for a field the product lacks.
C13_ProductFirst ==
  [][(lastC'.op = "own" /\ lastC'.status = 201 /\ lastC'.product # FreshOid) =>
       \A body \in ClosetBodies :
         (IsHex(body.productId) /\ IOwnThisProduct(body)) =>
         LET product == products[NewObjectId(body.productId)]
             item == closet'[Len(closet')]
         IN /\ item.productId = NewObjectId(body.productId)
            /\ ProductFirst(item.type, product.type, body.type)
            /\ ProductFirst(item.color, product.color, body.color)
            /\ ProductFirst(item.customImage, product.image, body.customImage)
            /\ ProductFirst(item.name, product.name, body.name)]_vars

C13_Witness ==
  /\ lastC.op = "own" /\ lastC.status = 201 /\ lastC.product \in ProductOids
  /\ Exists(products, lastC.product)
  /\ products[lastC.product].type = "" /\ products[lastC.product].name = "n"
  /\ closet # <<>>
  /\ closet[Len(closet)].productId = lastC.product
  /\ closet[Len(closet)].type = "rt"
  /\ closet[Len(closet)].color = products[lastC.product].color
  /\ closet[Len(closet)].name = "n"

SameNameBrand(doc, d) == doc # Null /\ doc.name = d.name /\ doc.brand = d.brand

\* C14: with one request handled at a time, an upsert that follows an
\* upsert which created a product, and carries the same (name, brand),
\* inserts nothing and leaves exactly one stored product with that
\* (name, brand).
C14_UpsertTwiceOneRecord ==
  [][(lastC.op = "upsert" /\ lastC.status = 201 /\ lastC'.op = "upsert") =>
       \A d \in ProductBodies :
         (SameNameBrand(products[lastC.product], d) /\ UpsertProduct(d)) =>
           /\ products' = products
           /\ Cardinality({o \in ProductOids : SameNameBrand(products'[o], d)}) = 1]_vars

ProductKey(doc) == <<doc.name, doc.brand, doc.type, doc.color>>

\* C15: with one request handled at a time, no two stored products have
\* the same (name, brand, type, color).
C15_ProductsUnique ==
  \A a, b \in ProductOids :
    (a # b /\ Exists(products, a) /\ Exists(products, b))
      => ProductKey(products[a]) # ProductKey(products[b])

\* ---------------------------------------------------------------- properties: tokens
\* the request carries, as the second word of its Authorization header, the
\* token the client was issued, and the token's last second has not passed
CarriesValidToken(authHeader, ticks) ==
  /\ held # Null
  /\ authHeader # NoHeader /\ Len(authHeader.words) >= 2
  /\ authHeader.words[2] = held.token
  /\ Seconds(ticks) < Seconds(held.at) + ExpiresIn

\* a step of verifyToken
VerifyStep == last'.op = "verify" /\ now' = now /\ held' = held

\* C16: verifyToken has three outcomes: without an Authorization header
\* (absent or empty) it answers 401 and does not call next(); with a header
\* whose token part is missing or fails validation it answers 403 and does
\* not call next(); with a valid token it sends no response, sets
\* req.body.userId to the token's user id and calls next() exactly once.
C16_VerifyTokenThreeOutcomes ==
  [][VerifyStep =>
       IF last'.header = NoHeader \/ last'.header.words = <<>>
       THEN last'.status = 401 /\ last'.next = 0
       ELSE IF ~CarriesValidToken(last'.header, now)
       THEN last'.status = 403 /\ last'.next = 0
       ELSE /\ last'.status = 0 /\ last'.next = 1
            /\ last'.userId = OidToString(held.user)]_vars

C16_Witness ==
  /\ last.op = "verify" /\ last.status = 0 /\ last.next = 1
  /\ last.userId = HexStr(2, FALSE) /\ now > 0

\* a step of verifyToken on 'Bearer <the token the client was issued>'
VerifyHeldStep == VerifyStep /\ held # Null /\ last'.header = Bearer(held.token)
Accepted(r) == r.status = 0 /\ r.next = 1 /\ r.userId = OidToString(held.user)
Forbidden(r) == r.status = 403 /\ r.next = 0

\* C17 as stated: a token issued at time t for user U is accepted, decoding
\* to U, at every time strictly before t + 1 hour and rejected with 403 at
\* every time after t + 1 hour, whatever requests were made in between.
C17_OneHourWindow ==
  [][VerifyHeldStep =>
       /\ now < held.at + Hour => Accepted(last')
       /\ now > held.at + Hour => Forbidden(last')]_vars

\* C17 amended: with the clock read in whole seconds, a token issued in
\* second s for user U is accepted, decoding to U, in every second before
\* s + 3600 and rejected with 403 from second s + 3600 on, whatever
\* requests were made in between.
C17_OneHourWindowInSeconds ==
  [][VerifyHeldStep =>
       /\ Seconds(now) < Seconds(held.at) + ExpiresIn => Accepted(last')
       /\ Seconds(now) >= Seconds(held.at) + ExpiresIn => Forbidden(last')]_vars

C17_Witness ==
  /\ last.op = "verify" /\ held # Null /\ last.header = Bearer(held.token)
  /\ held.at % TicksPerSecond # 0
  /\ now = held.at + Hour - 1
  /\ last.status = 403

\* ---------------------------------------------------------------- properties: accounts
\* the response carries a token that verifyToken accepts at once and that
\* decodes to the user with this id
TokenFor(r, oid) ==
  /\ "token" \in DOMAIN r
  /\ VerifyToken(Bearer(r.token), now) = Outcome(0, 1, OidToString(oid))

\* C18: registering with a username, an unused email and a password
\* answers 201 with a token for the new user; a login with the email and
\* the password of a stored user answers 200 with a token that verifyToken
\* accepts and that decodes to that user's id; a login with another
\* password or with an unknown email answers 401 and carries no token.
C18_RegisterThenLogin ==
  [][last'.op \in {"register", "login"} =>
       \A email \in Emails, password \in Passwords :
         /\ (GetUserByEmail(users, email) = FreshOid
               /\ CreateUserRequest(TRUE, email, password)) =>
              /\ last'.status = 201 /\ TokenFor(last', nextUser)
              /\ Exists(users', nextUser) /\ users'[nextUser].email = email
         /\ Login(email, password) =>
              LET id == GetUserByEmail(users, email) IN
              IF id # FreshOid /\ users[id].password = password
              THEN last'.status = 200 /\ TokenFor(last', id)
              ELSE last'.status = 401 /\ "token" \notin DOMAIN last']_vars

\* C19: in every reachable state no two stored users have the same email,
\* whatever the interleaving of registrations (two registrations for one
\* email may both look the email up before either inserts) and of user
\* updates that change an email.
C19_EmailsUnique ==
  \A a, b \in UserOids :
    (a # b /\ Exists(users, a) /\ Exists(users, b)) => users[a].email # users[b].email

\* a registration passed its lookup and was then refused by the index
C19_Witness ==
  /\ last.op = "register" /\ last.status = 500
  /\ \E a \in UserOids : Exists(users, a)

\* ---------------------------------------------------------------- properties: guarded routes
\* C20: a PUT or DELETE on /api/users/:id, or a profile mutation under it,
\* that carries no token or an invalid token is answered by verifyToken
\* (401 or 403), never reaches its controller, and leaves every stored user
\* unchanged.
C20_MutationsRequireToken ==
  [][last'.op \in {"update", "delete", "profile"} =>
       \A authHeader \in ClientHeaders :
         (/\ ~CarriesValidToken(authHeader, now)
          /\ PutUser(authHeader) \/ DeleteUser(authHeader) \/ PutProfile(authHeader)) =>
           /\ last'.status \in {401, 403}
           /\ users' = users /\ nextUser' = nextUser]_vars

\* a DELETE carrying the client's token after its expiry is refused while
\* the account exists
C20_Witness ==
  /\ last.op = "delete" /\ last.status = 403
  /\ held # Null /\ Seconds(now) >= held.token.exp
  /\ Exists(users, held.user)

\* ---------------------------------------------------------------- properties: deletes
\* C21: a delete request for a user whose id does not resolve to a stored
\* user is answered 404 (not 500) and leaves the store unchanged.
C21_DeleteMissingIs404 ==
  [][(last'.op = "delete" /\ last'.actor \in UserOids /\ ~Exists(users, last'.actor)) =>
       (last'.status = 404 /\ users' = users)]_vars

\* ---------------------------------------------------------------- properties: validators
\* validateCreateClosetItem: userId is a Mongo id; type, color, season and
\* occasion are strings
ValidateCreateClosetItem(body) ==
  /\ body.userId.kind = "hex"
  /\ body.type # Missing /\ body.color # Missing
  /\ body.seasonOccasion

\* C22: a POST /api/closet-items whose body fails validateCreateClosetItem
\* is answered 400 before the controller runs, and performs no store
\* operation.
C22_ValidatorsRunFirst ==
  [][lastC'.op = "own" =>
       \A body \in ClosetBodies :
         (~ValidateCreateClosetItem(body) /\ IOwnThisProduct(body)) =>
           (lastC'.status = 400 /\ closet' = closet)]_vars

\* ---------------------------------------------------------------- properties: post creation
\* C23: a create request with a valid userId and imageURL and no products
\* field stores exactly one new post and is answered 201.
C23_ProductsOptional ==
  [][lastP'.op = "create" =>
       \A b \in BodyIds :
         (b.kind = "hex" /\ CreateOOTDPostRequest(b, TRUE, NoProducts)) =>
           /\ lastP'.status = 201
           /\ nextPost' = nextPost + 1 /\ Exists(posts', nextPost)
           /\ \A p \in PostOids \ {nextPost} : posts'[p] = posts[p]]_vars

\* ---------------------------------------------------------------- properties: the client
\* C24: after a successful login exchange the client's local storage holds
\* the token the server issued and the user id of the account that logged
\* in; after logout it holds neither.
C24_StorageHoldsTokenAndUser ==
  [][/\ \A email \in Emails, password \in Passwords :
          (HandleLogin(email, password) /\ last'.status = 200) =>
            /\ localStorage'.token = last'.token
            /\ localStorage'.userId = OidToString(last'.actor)
     /\ HandleLogout => (localStorage'.token = Null /\ localStorage'.userId = Null)]_vars

\* ---------------------------------------------------------------- properties: upsert race
\* C25: the upsert looks up and then inserts without atomicity: a request
\* that found no record at its lookup inserts its record whatever has been
\* stored since, so two requests with one (name, brand, type, color) that
\* both look up before either inserts both insert.
C25_LookupThenInsert ==
  [][\A h \in Handlers :
       (hs[h].pc = "create" /\ hs'[h].pc = "idle" /\ ~ProductInvalid(hs[h].d)) =>
         /\ lastC'.status = 201
         /\ nextProduct' = nextProduct + 1
         /\ Matches(products'[nextProduct], hs[h].d)]_vars

\* two stored records with one key, both inserted by upserts
C25_Witness ==
  \E a, b \in ProductOids :
    /\ a # b /\ Exists(products, a) /\ Exists(products, b)
    /\ ProductKey(products[a]) = ProductKey(products[b])

\* ---------------------------------------------------------------- properties: failing notification
\* C26: when the Notification write fails after the like, save or comment
\* update has been applied, the request is answered 500, no notification is
\* stored, and the actor's id (or the comment) stays recorded on the post.
C26_NoRollback ==
  [][(Notifying(lastP'.op) /\ lastP'.status = 500 /\ lastP'.post \in PostOids) =>
       LET before == posts[lastP'.post]
           after == posts'[lastP'.post]
           actorId == NewObjectId(lastP'.actor)
       IN /\ notifications' = notifications
          /\ lastP'.op = "like" => Includes(after.likes, actorId)
          /\ lastP'.op = "save" => Includes(after.saves, actorId)
          /\ lastP'.op = "comment" =>
               /\ Len(after.comments) = Len(before.comments) + 1
               /\ after.comments[Len(after.comments)].userId = actorId]_vars

\* a like that was answered 500 is on the post, and its owner has no
\* notification
C26_Witness ==
  /\ lastP.op = "like" /\ lastP.status = 500 /\ lastP.post \in PostOids
  /\ ~lastP.member
  /\ Includes(posts[lastP.post].likes, NewObjectId(lastP.actor))
  /\ notifications = <<>>

\* ---------------------------------------------------------------- properties: token holder
\* C27: a PUT or DELETE on /api/users/:id or on a profile route under it,
\* carrying a valid token for user X, modifies or deletes no user document
\* but X's.
C27_OnlyOwnAccount ==
  [][(last'.op \in {"update", "delete", "profile"} /\ held # Null) =>
       \A y \in UserOids : users'[y] # users[y] => y = held.user]_vars

\* ---------------------------------------------------------------- properties: actor identity
\* C28: on a route behind verifyToken, the userId the controller reads
\* from the request body is the userId of the verified token, whatever
\* userId the client put in the body.
C28_BodyUserIdFromToken ==
  [][(last'.op = "gated" /\ last'.next = 1) =>
       last'.userId = OidToString(held.user)]_vars

\* the client sent another user's id with its own valid token
C28_Witness ==
  /\ last.op = "gated" /\ last.next = 1
  /\ last.sent.kind = "hex" /\ last.sent # last.userId
  /\ NewObjectId(last.sent) # held.user

\* ---------------------------------------------------------------- properties: concurrent follows
\* C29: under any interleaving of concurrent follow requests, no user id
\* appears more than once in any user's following list or followers list.
C29_NoDuplicateFollows ==
  \A o \in UserOids : Exists(users, o) =>
    \A x \in UserOids :
      /\ Occurrences(users[o].following, x) <= 1
      /\ Occurrences(users[o].followers, x) <= 1

\* ---------------------------------------------------------------- properties: atomic likes and saves
\* the members of a list, as a set
Members(list) == {list[i] : i \in 1..Len(list)}

\* C30: under any interleaving of like, unlike, save and unsave requests
\* on a post, each request's update is applied to the post as stored at
\* that moment, so no other request's update is lost: the update adds the
\* actor to (or removes the actor from) the set it is about, keeps every
\* other member, and leaves the other set and the other posts as they were.
C30_AtomicSetUpdates ==
  [][\A h \in Handlers :
       (/\ hs[h].pc = "findByIdAndUpdate" /\ hs'[h].pc # "findByIdAndUpdate"
        /\ ~CastFails(hs[h].p) /\ ~CastFails(hs[h].b)
        /\ Exists(posts, NewObjectId(hs[h].p))) =>
         LET id == NewObjectId(hs[h].p)
             actorId == NewObjectId(hs[h].b)
             op == hs[h].op
             likes == Members(posts[id].likes)
             saves == Members(posts[id].saves)
         IN /\ Members(posts'[id].likes) =
                 IF op = "like" THEN likes \cup {actorId}
                 ELSE IF op = "unlike" THEN likes \ {actorId}
                 ELSE likes
            /\ Members(posts'[id].saves) =
                 IF op = "save" THEN saves \cup {actorId}
                 ELSE IF op = "unsave" THEN saves \ {actorId}
                 ELSE saves
            /\ posts'[id].comments = posts[id].comments
            /\ posts'[id].userId = posts[id].userId
            /\ \A q \in PostOids \ {id} : posts'[q] = posts[q]]_vars

\* a request's update took effect on a post that another request had
\* changed since this one arrived
C30_Witness ==
  \E h \in Handlers :
    /\ hs[h].pc = "findByIdAndUpdate" /\ hs[h].op = "unlike"
    /\ hs[h].seen # Null
    /\ Exists(posts, NewObjectId(hs[h].p))
    /\ Members(posts[NewObjectId(hs[h].p)].likes) # Members(hs[h].seen.likes)
    /\ lastP.op = "like" /\ lastP.status = 200

====
